---- MODULE Spec2Model ----
(***************************************************************************)
(* A model of minissg (src/main.rs): the block segmenter (parse_blocks),   *)
(* the inline formatter (parse_text / push_fmted_text), the document       *)
(* assembler (parse / parse_inner), the renderer (Text::render,            *)
(* Block::render, render_document) and the math subprocess pipeline        *)
(* (render_math_to_svg).                                                   *)
(*                                                                         *)
(* A String is a sequence of one-character strings.  Offsets are the       *)
(* 0-based offsets of the Rust code (all modelled characters are ASCII, so *)
(* byte offsets and character offsets coincide).                           *)
(***************************************************************************)
EXTENDS Integers, Sequences, FiniteSets, TLC

(***************************************************************************)
(* Bounds of the model.                                                    *)
(***************************************************************************)
MaxPieces == 4      \* an inline text is at most this many pieces long
MaxLines == 3       \* a document of the segmenter is at most this many lines
MaxItems == 4       \* a rendered list has at most this many items
MaxLevel == 2       \* nesting levels of the rendered list's items
MaxDocLines == 4    \* a rendered document is at most this many lines

(***************************************************************************)
(* Strings.                                                                *)
(***************************************************************************)
Digits == {"0", "1", "2", "3", "4", "5", "6", "7", "8", "9"}
Whitespace == {" ", "\t"}
\* the backquote character (U+0060), which a TLA+ string cannot hold
Backtick == "BACKTICK"

\* s[from..] with a 0-based offset
StrFrom(s, from) == SubSeq(s, from + 1, Len(s))

\* s[..to] with a 0-based exclusive offset
StrTo(s, to) == SubSeq(s, 1, to)

\* str::starts_with
starts_with(s, p) == Len(s) >= Len(p) /\ SubSeq(s, 1, Len(p)) = p

\* the number of consecutive characters of s from offset from that are in set
RECURSIVE RunIn(_, _, _)
RunIn(s, from, set) ==
    IF from < Len(s) /\ s[from + 1] \in set
    THEN 1 + RunIn(s, from + 1, set)
    ELSE 0

\* the number of consecutive characters of s from offset from that are not in stop
RECURSIVE RunNotIn(_, _, _)
RunNotIn(s, from, stop) ==
    IF from < Len(s) /\ s[from + 1] \notin stop
    THEN 1 + RunNotIn(s, from + 1, stop)
    ELSE 0

\* the character at a 0-based offset, or "" past the end
At(s, off) == IF off < Len(s) THEN s[off + 1] ELSE ""

\* str::trim
trim(s) ==
    LET lead == RunIn(s, 0, Whitespace)
        rest == StrFrom(s, lead)
        keep == CHOOSE n \in 0..Len(rest) :
                    /\ (n > 0 => rest[n] \notin Whitespace)
                    /\ \A k \in (n + 1)..Len(rest) : rest[k] \in Whitespace
    IN  StrTo(rest, keep)

RECURSIVE Concat(_)
Concat(ss) == IF ss = <<>> THEN <<>> ELSE Head(ss) \o Concat(Tail(ss))

(***************************************************************************)
(* The data model: TextFormat, Text.                                       *)
(***************************************************************************)
Fmt(tag) == [tag |-> tag, url |-> <<>>]
Raw == Fmt("Raw")
Plain == Fmt("Plain")
Bold == Fmt("Bold")
Italic == Fmt("Italic")
InlineMath == Fmt("InlineMath")
InlineCode == Fmt("InlineCode")
FootnoteRef == Fmt("FootnoteRef")
Link(url) == [tag |-> "Link", url |-> url]

Text(src, fmt) == [src |-> src, fmt |-> fmt]

\* the least offset of a non-empty set of offsets
Leftmost(offsets) == CHOOSE i \in offsets : \A k \in offsets : i <= k

NoMatch == [found |-> FALSE, start |-> 0, end |-> 0, g1 |-> <<>>, g2 |-> <<>>]

(***************************************************************************)
(* push_fmted_text's regular expressions.                                  *)
(***************************************************************************)
\* link_match_at with the match ending before the closing parenthesis
link_match_at_short(s, i) ==
    LET n1 == RunNotIn(s, i + 1, {"]"})
        p1 == i + 1 + n1
        n2 == RunNotIn(s, p1 + 2, {")"})
        p2 == p1 + 2 + n2
    IN  IF /\ At(s, i) = "["
           /\ n1 >= 1
           /\ At(s, p1) = "]"
           /\ At(s, p1 + 1) = "("
           /\ n2 >= 1
           /\ At(s, p2) = ")"
        THEN [found |-> TRUE, start |-> i, end |-> p2,
              g1 |-> SubSeq(s, i + 2, p1), g2 |-> SubSeq(s, p1 + 3, p2)]
        ELSE NoMatch

\* \[([^\]]+)\]\(([^)]+)\) matched at offset i
link_match_at(s, i) ==
    LET n1 == RunNotIn(s, i + 1, {"]"})
        p1 == i + 1 + n1                   \* offset of the "]"
        n2 == RunNotIn(s, p1 + 2, {")"})
        p2 == p1 + 2 + n2                  \* offset of the ")"
    IN  IF /\ At(s, i) = "["
           /\ n1 >= 1
           /\ At(s, p1) = "]"
           /\ At(s, p1 + 1) = "("
           /\ n2 >= 1
           /\ At(s, p2) = ")"
        THEN [found |-> TRUE, start |-> i, end |-> p2 + 1,
              g1 |-> SubSeq(s, i + 2, p1), g2 |-> SubSeq(s, p1 + 3, p2)]
        ELSE NoMatch

\* Regex::find / Regex::captures: the leftmost match
link_regex(s) ==
    IF \E i \in 0..(Len(s) - 1) : link_match_at(s, i).found
    THEN link_match_at(s, Leftmost({i \in 0..(Len(s) - 1) : link_match_at(s, i).found}))
    ELSE NoMatch

\* \[\^(\d+)\] matched at offset i
footnote_match_at(s, i) ==
    LET n == RunIn(s, i + 2, Digits)
    IN  IF /\ At(s, i) = "["
           /\ At(s, i + 1) = "^"
           /\ n >= 1
           /\ At(s, i + 2 + n) = "]"
        THEN [found |-> TRUE, start |-> i, end |-> i + 3 + n,
              g1 |-> SubSeq(s, i + 3, i + 2 + n), g2 |-> <<>>]
        ELSE NoMatch

footnote_ref_regex(s) ==
    IF \E i \in 0..(Len(s) - 1) : footnote_match_at(s, i).found
    THEN footnote_match_at(s, Leftmost({i \in 0..(Len(s) - 1) :
                                            footnote_match_at(s, i).found}))
    ELSE NoMatch

(***************************************************************************)
(* push_fmted_text: the values of *s_buf, *texts and *fmt_c on return.     *)
(***************************************************************************)
\* line 447: the toggle of the current format
toggle_fmt(fmt_c, fmt_new) == IF fmt_c = fmt_new THEN Plain ELSE fmt_new

RECURSIVE push_fmted_text(_, _, _, _)

\* lines 400-420 (run_fmt a Link) and 424-443 (run_fmt FootnoteRef): the
\* pattern matched at mat
push_match(s_buf, texts, fmt_c, fmt_new, mat, run_fmt) ==
    IF mat.end < Len(s_buf)
    THEN [push_fmted_text(StrFrom(s_buf, mat.end),
                          Append(IF mat.start > 0
                                 THEN Append(texts, Text(StrTo(s_buf, mat.start), fmt_c))
                                 ELSE texts,
                                 Text(mat.g1, run_fmt)),
                          fmt_c, fmt_new)
            EXCEPT !.s_buf = s_buf]
    ELSE [s_buf |-> <<>>,
          texts |-> Append(IF mat.start > 0
                           THEN Append(texts, Text(StrTo(s_buf, mat.start), fmt_c))
                           ELSE texts,
                           Text(mat.g1, run_fmt)),
          fmt_c |-> toggle_fmt(fmt_c, fmt_new)]

\* lines 398-448, with the matches lm of link_regex and fm of footnote_regex
push_checked(s_buf, texts, fmt_c, fmt_new, lm, fm) ==
    IF lm.found /\ fmt_new = Plain
    THEN push_match(s_buf, texts, fmt_c, fmt_new, lm, Link(lm.g2))
    ELSE IF fm.found /\ fmt_new = Plain
    THEN push_match(s_buf, texts, fmt_c, fmt_new, fm, FootnoteRef)
    ELSE [s_buf |-> <<>>, texts |-> Append(texts, Text(s_buf, fmt_c)),
          fmt_c |-> toggle_fmt(fmt_c, fmt_new)]

push_fmted_text(s_buf, texts, fmt_c, fmt_new) ==
    IF s_buf = <<>>
    THEN [s_buf |-> s_buf, texts |-> texts, fmt_c |-> fmt_c]
    ELSE push_checked(s_buf, texts, fmt_c, fmt_new,
                      link_regex(s_buf), footnote_ref_regex(s_buf))

(***************************************************************************)
(* parse_text: one iteration of for c in chars on the loop's locals      *)
(* st = [s_buf, texts, escaped, fmt, in_literal_mode], and the flush after *)
(* the loop.                                                               *)
(***************************************************************************)
scan_init ==
    [s_buf |-> <<>>, texts |-> <<>>, escaped |-> FALSE, fmt |-> Plain,
     in_literal_mode |-> FALSE]

\* the locals after a call that left r in *s_buf, *texts and *fmt_c
scan_pushed(st, r) == [st EXCEPT !.s_buf = r.s_buf, !.texts = r.texts, !.fmt = r.fmt_c]

\* a call push_fmted_text(&mut s_buf, &mut texts, &mut fmt, fmt_new) of the loop
scan_push(st, fmt_new) ==
    scan_pushed(st, push_fmted_text(st.s_buf, st.texts, st.fmt, fmt_new))

\* lines 370-383: the match on c
scan_dispatch(st, c) ==
    CASE c = "\\" -> [st EXCEPT !.escaped = TRUE]
      [] c = "*" -> scan_push(st, Bold)
      [] c = "_" -> scan_push(st, Italic)
      [] c = "$" -> [scan_push(st, InlineMath)
                        EXCEPT !.in_literal_mode = ~st.in_literal_mode]
      [] c = Backtick -> [scan_push(st, InlineCode)
                        EXCEPT !.in_literal_mode = ~st.in_literal_mode]
      [] OTHER -> [st EXCEPT !.s_buf = Append(@, c)]

\* scan_literal with a backslash that sets the escape flag
scan_literal_escaping(st, c) ==
    IF c = "\\" THEN [st EXCEPT !.escaped = TRUE]
    ELSE IF c = "$" /\ st.fmt = InlineMath
    THEN [scan_push(st, Plain) EXCEPT !.in_literal_mode = FALSE]
    ELSE IF c = Backtick /\ st.fmt = InlineCode
    THEN [scan_push(st, Plain) EXCEPT !.in_literal_mode = FALSE]
    ELSE [st EXCEPT !.s_buf = Append(@, c)]

\* lines 358-369: in literal mode
scan_literal(st, c) ==
    IF c = "$" /\ st.fmt = InlineMath
    THEN [scan_push(st, Plain) EXCEPT !.in_literal_mode = FALSE]
    ELSE IF c = Backtick /\ st.fmt = InlineCode
    THEN [scan_push(st, Plain) EXCEPT !.in_literal_mode = FALSE]
    ELSE [st EXCEPT !.s_buf = Append(@, c)]

\* scan_escaped with the character dispatched as if it were not escaped
scan_escaped_dispatched(st, c) == scan_dispatch([st EXCEPT !.escaped = FALSE], c)

\* lines 354-357: the character after a backslash
scan_escaped(st, c) == [st EXCEPT !.s_buf = Append(@, c), !.escaped = FALSE]

scan_char(st, c) ==
    IF st.escaped THEN scan_escaped(st, c)
    ELSE IF st.in_literal_mode THEN scan_literal(st, c)
    ELSE scan_dispatch(st, c)

\* lines 385-388
scan_end(st) == scan_push(st, st.fmt)

\* line 352, for c in chars: the iterations on src[from..to], in order. The
\* range is scanned as its two halves, one after the other, and the locals st
\* an iteration starts from are a value (st = st has them evaluated) before
\* the range is entered: the evaluation nests by the logarithm of the length.
RECURSIVE scan_range(_, _, _, _)
scan_range(st, src, from, to) ==
    IF st = st /\ from > to THEN st
    ELSE IF from = to THEN scan_char(st, src[from])
    ELSE scan_range(scan_range(st, src, from, (from + to) \div 2),
                    src, (from + to) \div 2 + 1, to)

scan_all(st, src) == scan_range(st, src, 1, Len(src))

parse_text(src) == scan_end(scan_all(scan_init, src)).texts

(***************************************************************************)
(* The data model: Block, ListItem.                                        *)
(***************************************************************************)
Paragraph(ts) == [kind |-> "Paragraph", texts |-> ts]
Header(level, text) == [kind |-> "Header", level |-> level, src |-> text]
Code(lang, text) == [kind |-> "Code", lang |-> lang, src |-> text]
Math(text) == [kind |-> "Math", src |-> text]
Image(alt, url, width) == [kind |-> "Image", alt |-> alt, url |-> url, width |-> width]
Html(text) == [kind |-> "Html", src |-> text]
Quote(text) == [kind |-> "Quote", src |-> text]
Footnote(id, ts) == [kind |-> "Footnote", id |-> id, texts |-> ts]
List(is_ordered, items) == [kind |-> "List", is_ordered |-> is_ordered, items |-> items]
ListItem(level, content) == [level |-> level, content |-> content]

(***************************************************************************)
(* u32.  A u32 is held as its decimal digits without leading zeros (a      *)
(* value above the checker's integers must be representable).              *)
(***************************************************************************)
U32Max == <<"4", "2", "9", "4", "9", "6", "7", "2", "9", "5">>
DigitValue(c) == CHOOSE v \in 0..9 : <<"0", "1", "2", "3", "4", "5", "6", "7", "8", "9">>[v + 1] = c

\* the digits without their leading zeros ("0" for zero)
canonical_digits(d) ==
    LET z == RunIn(d, 0, {"0"})
    IN  IF z = Len(d) THEN <<"0">> ELSE StrFrom(d, z)

\* a < b for two digit strings of the same length
RECURSIVE digits_less(_, _)
digits_less(a, b) ==
    IF a = <<>> THEN FALSE
    ELSE IF Head(a) # Head(b) THEN DigitValue(Head(a)) < DigitValue(Head(b))
    ELSE digits_less(Tail(a), Tail(b))

\* str::parse::<u32>() of a non-empty digit string: Ok(value) or Err
parse_u32(d) ==
    LET c == canonical_digits(d)
    IN  IF Len(c) > Len(U32Max) \/ (Len(c) = Len(U32Max) /\ digits_less(U32Max, c))
        THEN [ok |-> FALSE, val |-> <<>>]
        ELSE [ok |-> TRUE, val |-> c]

DefaultWidth == <<"1", "0", "0">>

(***************************************************************************)
(* parse_blocks' regular expressions and captures_ol_li, captures_ul_li.   *)
(***************************************************************************)
\* !\[([^\]]*)\]\(([^)]+)\)(?:\{(\d+)\})? matched at offset i; g3 is the
\* third group, has3 whether it took part in the match
image_match_at(s, i) ==
    LET n1 == RunNotIn(s, i + 2, {"]"})
        p1 == i + 2 + n1                   \* offset of the "]"
        n2 == RunNotIn(s, p1 + 2, {")"})
        p2 == p1 + 2 + n2                  \* offset of the ")"
        nd == RunIn(s, p2 + 2, Digits)
        has3 == At(s, p2 + 1) = "{" /\ nd >= 1 /\ At(s, p2 + 2 + nd) = "}"
    IN  IF /\ At(s, i) = "!"
           /\ At(s, i + 1) = "["
           /\ At(s, p1) = "]"
           /\ At(s, p1 + 1) = "("
           /\ n2 >= 1
           /\ At(s, p2) = ")"
        THEN [found |-> TRUE, g1 |-> SubSeq(s, i + 3, p1), g2 |-> SubSeq(s, p1 + 3, p2),
              has3 |-> has3, g3 |-> IF has3 THEN SubSeq(s, p2 + 3, p2 + 2 + nd) ELSE <<>>]
        ELSE [found |-> FALSE, g1 |-> <<>>, g2 |-> <<>>, has3 |-> FALSE, g3 |-> <<>>]

\* Regex::captures: the leftmost match
image_regex(s) ==
    IF \E i \in 0..(Len(s) - 1) : image_match_at(s, i).found
    THEN image_match_at(s, Leftmost({i \in 0..(Len(s) - 1) : image_match_at(s, i).found}))
    ELSE image_match_at(s, Len(s))

\* ^\[\^(\d+)\]:\s*(.*)
footnote_regex(s) ==
    LET n == RunIn(s, 2, Digits)
        ws == RunIn(s, 4 + n, Whitespace)
    IN  IF /\ At(s, 0) = "["
           /\ At(s, 1) = "^"
           /\ n >= 1
           /\ At(s, 2 + n) = "]"
           /\ At(s, 3 + n) = ":"
        THEN [found |-> TRUE, g1 |-> SubSeq(s, 3, 2 + n), g2 |-> StrFrom(s, 4 + n + ws)]
        ELSE [found |-> FALSE, g1 |-> <<>>, g2 |-> <<>>]

NoItem == [some |-> FALSE, item |-> ListItem(0, <<>>)]
SomeItem(level, content) == [some |-> TRUE, item |-> ListItem(level, content)]

\* ^( *)([^\s.]+)\.\s+(.*): whether it matches, and the offset of group 3
ol_label(line) == RunNotIn(line, RunIn(line, 0, {" "}), Whitespace \cup {"."})
ol_space(line) == RunIn(line, RunIn(line, 0, {" "}) + ol_label(line) + 1, Whitespace)
is_ol_li(line) ==
    /\ ol_label(line) >= 1
    /\ At(line, RunIn(line, 0, {" "}) + ol_label(line)) = "."
    /\ ol_space(line) >= 1

captures_ol_li(line) ==
    IF is_ol_li(line)
    THEN SomeItem(RunIn(line, 0, {" "}) \div 4,
                  parse_text(StrFrom(line, RunIn(line, 0, {" "}) + ol_label(line) + 1
                                           + ol_space(line))))
    ELSE NoItem

\* ^( *)[-*]\s+(.*): whether it matches, and the offset of group 2
ul_space(line) == RunIn(line, RunIn(line, 0, {" "}) + 1, Whitespace)
is_ul_li(line) ==
    /\ At(line, RunIn(line, 0, {" "})) \in {"-", "*"}
    /\ ul_space(line) >= 1

captures_ul_li(line) ==
    IF is_ul_li(line)
    THEN SomeItem(RunIn(line, 0, {" "}) \div 4,
                  parse_text(StrFrom(line, RunIn(line, 0, {" "}) + 1 + ul_space(line))))
    ELSE NoItem

(***************************************************************************)
(* parse_blocks.  lines is what the iterator input.lines() still holds;    *)
(* st = [lines, text_buf, is_new_block, blocks, panicked] are the locals,  *)
(* panicked telling that an unwrap failed.                                 *)
(***************************************************************************)
segment_init(input_lines) ==
    [lines |-> input_lines, text_buf |-> <<>>, is_new_block |-> TRUE,
     blocks |-> <<>>, panicked |-> FALSE]

\* take_until with an if let in the place of the while let: one line is taken
take_until_once(ls, close) ==
    IF ls = <<>> THEN [body |-> <<>>, rest |-> <<>>]
    ELSE IF starts_with(Head(ls), close) THEN [body |-> <<>>, rest |-> Tail(ls)]
    ELSE [body |-> <<Head(ls)>>, rest |-> Tail(ls)]

\* a loop while let Some(line) = lines.next() { if line.starts_with(close)
\* { break; } ... }: the lines before the closing one, and the iterator after
RECURSIVE take_until(_, _)
take_until(ls, close) ==
    IF ls = <<>> THEN [body |-> <<>>, rest |-> <<>>]
    ELSE IF starts_with(Head(ls), close) THEN [body |-> <<>>, rest |-> Tail(ls)]
    ELSE [take_until(Tail(ls), close) EXCEPT !.body = <<Head(ls)>> \o @]

\* push_str(line); push(sep) for each line
RECURSIVE push_lines(_, _)
push_lines(ls, sep) ==
    IF ls = <<>> THEN <<>> ELSE Head(ls) \o sep \o push_lines(Tail(ls), sep)

\* items.push(item) seen from the rest of the loop
push_front(item, r) == [r EXCEPT !.items = <<item>> \o @]

\* the loops of lines 254-262 (ol_first) and 271-279: the items of the lines
\* that match, and the iterator after the loop
RECURSIVE take_items(_, _)

\* take_item without the arm that tries the second pattern
take_item_same_kind(ls, ol_first, first, second) ==
    IF first.some THEN push_front(first.item, take_items(Tail(ls), ol_first))
    ELSE [items |-> <<>>, rest |-> Tail(ls)]

\* one iteration of the loop: first and second are the captures of the
\* pattern tried first and of the one tried second on the line taken
take_item(ls, ol_first, first, second) ==
    IF first.some THEN push_front(first.item, take_items(Tail(ls), ol_first))
    ELSE IF second.some THEN push_front(second.item, take_items(Tail(ls), ol_first))
    ELSE [items |-> <<>>, rest |-> Tail(ls)]

take_items(ls, ol_first) ==
    IF ls = <<>> THEN [items |-> <<>>, rest |-> <<>>]
    ELSE IF ol_first
    THEN take_item(ls, ol_first, captures_ol_li(Head(ls)), captures_ul_li(Head(ls)))
    ELSE take_item(ls, ol_first, captures_ul_li(Head(ls)), captures_ol_li(Head(ls)))

Fence == <<Backtick, Backtick, Backtick>>

\* lines 176-183, with the lines r that the loop took
code_block(st, language, r) ==
    [st EXCEPT !.blocks = Append(@, Code(language,
                                         st.text_buf \o push_lines(r.body, <<"\n">>))),
               !.text_buf = <<>>,
               !.lines = r.rest]

\* lines 188-194, with the lines r that the loop took
math_block(st, r) ==
    [st EXCEPT !.blocks = Append(@, Math(st.text_buf \o push_lines(r.body, <<"\n">>))),
               !.text_buf = <<>>,
               !.lines = r.rest]

\* lines 221-228, with the lines r that the loop took
html_block(st, r) ==
    [st EXCEPT !.blocks = Append(@, Html(push_lines(r.body, <<>>))), !.lines = r.rest]

\* lines 200-207, with the captures of image_regex and the width parsed
image_block(st, caps, width) ==
    IF ~caps.found THEN st
    ELSE IF ~caps.has3
    THEN [st EXCEPT !.blocks = Append(@, Image(caps.g1, caps.g2, DefaultWidth))]
    ELSE IF ~width.ok THEN [st EXCEPT !.panicked = TRUE]
    ELSE [st EXCEPT !.blocks = Append(@, Image(caps.g1, caps.g2, width.val))]

\* footnote_block without the check that the pattern matched
footnote_block_unchecked(st, caps) ==
    [st EXCEPT !.blocks = Append(@, Footnote(caps.g1, <<Text(caps.g2, Raw)>>))]

\* lines 240-248, with the captures of footnote_regex
footnote_block(st, caps) ==
    IF caps.found
    THEN [st EXCEPT !.blocks = Append(@, Footnote(caps.g1, <<Text(caps.g2, Raw)>>))]
    ELSE st

\* lines 253-265 and 270-282: the list of li0 and of the items r the loop took
list_block(st, ordered, li0, r) ==
    [st EXCEPT !.blocks = Append(@, List(ordered, <<li0.item>> \o r.items)),
               !.lines = r.rest]

\* lines 167-289: the dispatch on the prefix of a line that starts a block;
\* st.lines is the iterator after the line was taken
segment_dispatch(st, line) ==
    IF starts_with(line, <<"#">>)
    THEN [st EXCEPT !.blocks =
            Append(@, Header(RunIn(line, 0, {"#"}),
                             trim(StrFrom(line, RunIn(line, 0, {"#"})))))]
    ELSE IF starts_with(line, Fence)
    THEN code_block(st, trim(StrFrom(line, 3)), take_until(st.lines, Fence))
    ELSE IF starts_with(line, <<"\\", "[">>)
    THEN math_block(st, take_until(st.lines, <<"\\", "]">>))
    ELSE IF starts_with(line, <<"!", "[">>)
    THEN image_block(st, image_regex(line), parse_u32(image_regex(line).g3))
    ELSE IF starts_with(line, <<"<", "!", "-", "-">>)
    THEN [st EXCEPT !.lines = take_until(st.lines, <<"-", "-", ">">>).rest]
    ELSE IF starts_with(line, <<"<", "h", "t", "m", "l", ">">>)
    THEN html_block(st, take_until(st.lines, <<"<", "/", "h", "t", "m", "l", ">">>))
    ELSE IF starts_with(line, <<">", ">", " ">>)
    THEN [st EXCEPT !.blocks = Append(@, Quote(trim(StrFrom(line, 3))))]
    ELSE IF starts_with(line, <<"[", "^">>)
    THEN footnote_block(st, footnote_regex(line))
    ELSE IF is_ol_li(line)
    THEN list_block(st, TRUE, captures_ol_li(line), take_items(st.lines, TRUE))
    ELSE IF is_ul_li(line)
    THEN list_block(st, FALSE, captures_ul_li(line), take_items(st.lines, FALSE))
    ELSE [st EXCEPT !.text_buf = @ \o line \o <<" ">>]

\* line 290, unless the dispatch panicked
dispatched(d) == IF d.panicked THEN d ELSE [d EXCEPT !.is_new_block = FALSE]

\* segment_line without the check of is_new_block (lines 161-165)
segment_line_always_dispatch(st) ==
    LET line == Head(st.lines)
        taken == [st EXCEPT !.lines = Tail(@)]
    IN  IF trim(line) = <<>>
        THEN [taken EXCEPT
                !.blocks = IF st.text_buf # <<>>
                           THEN Append(@, Paragraph(<<Text(st.text_buf, Raw)>>))
                           ELSE @,
                !.text_buf = <<>>,
                !.is_new_block = TRUE]
        ELSE dispatched(segment_dispatch(taken, line))

\* lines 149-291: one iteration of while let Some(line) = lines.next()
segment_line(st) ==
    LET line == Head(st.lines)
        taken == [st EXCEPT !.lines = Tail(@)]
    IN  IF trim(line) = <<>>
        THEN [taken EXCEPT
                !.blocks = IF st.text_buf # <<>>
                           THEN Append(@, Paragraph(<<Text(st.text_buf, Raw)>>))
                           ELSE @,
                !.text_buf = <<>>,
                !.is_new_block = TRUE]
        ELSE IF ~st.is_new_block
        THEN [taken EXCEPT !.text_buf = @ \o line \o <<" ">>]
        ELSE dispatched(segment_dispatch(taken, line))

\* lines 293-298: after the loop
segment_end(st) ==
    IF st.text_buf # <<>>
    THEN [st EXCEPT !.blocks = Append(@, Paragraph(<<Text(st.text_buf, Raw)>>))]
    ELSE st

(***************************************************************************)
(* parse_inner, parse.                                                     *)
(***************************************************************************)
\* parse_inner without the arm of Block::Footnote
parse_inner_paragraphs_only(block) ==
    IF block.kind = "Paragraph"
    THEN IF block.texts # <<>>
         THEN Paragraph(parse_text(Head(block.texts).src))
         ELSE block
    ELSE block

parse_inner(block) ==
    IF block.kind = "Paragraph"
    THEN IF block.texts # <<>>
         THEN Paragraph(parse_text(Head(block.texts).src))
         ELSE block
    ELSE IF block.kind = "Footnote"
    THEN IF block.texts # <<>>
         THEN Footnote(block.id, parse_text(Head(block.texts).src))
         ELSE block
    ELSE block

\* blocks.into_iter().map(|b| parse_inner(b)).collect()
parse_inner_all(bs) == [k \in 1..Len(bs) |-> parse_inner(bs[k])]

(***************************************************************************)
(* render_math_to_svg.  The outcome of its external steps is env:          *)
(*   tempdir, write   whether tempfile::tempdir and fs::write succeed      *)
(*   latex, dvisvgm   "nospawn" (Command::output fails), "fail" (the       *)
(*                    command exits non-zero) or "ok"                      *)
(*   dvi              whether math.dvi exists after the typesetter ran     *)
(*   latex_stdout, dvisvgm_stdout   the captured standard outputs          *)
(* The result is Ok(val), Err(val) or a panic (an unwrap of a failure),    *)
(* with the trace of the external steps taken.                             *)
(***************************************************************************)
SvgText == <<"<svg/>">>
LatexLog == <<"!", " ", "e", "r", "r">>

AllEnvs ==
    [tempdir : BOOLEAN, write : BOOLEAN, latex : {"nospawn", "fail", "ok"},
     dvi : BOOLEAN, dvisvgm : {"nospawn", "fail", "ok"},
     latex_stdout : {LatexLog, <<>>}, dvisvgm_stdout : {SvgText, <<>>}]

\* A step that is never reached has no outcome: one representative (the
\* failing value) stands for the outcomes of the steps after a failed one.
Envs ==
    {e \in AllEnvs :
        /\ ~e.tempdir => ~e.write
        /\ ~e.write => e.latex = "nospawn"
        /\ e.latex = "nospawn" => e.latex_stdout = <<>>
        /\ e.latex = "fail" => e.latex_stdout = LatexLog
        /\ e.latex # "ok" => ~e.dvi
        /\ ~e.dvi => e.dvisvgm = "nospawn"
        /\ e.dvisvgm = "nospawn" => e.dvisvgm_stdout = <<>>
        /\ e.dvisvgm = "ok" => e.dvisvgm_stdout = SvgText}

\* templates/math.tex (main, lines 59-61), read at start-up
math_template == <<"\\begin{document}", "{{content}}", "\\end{document}">>

\* str::replace("{{content}}", with)
RECURSIVE replace_content(_, _)
replace_content(template, with) ==
    IF template = <<>> THEN <<>>
    ELSE (IF Head(template) = "{{content}}" THEN with ELSE <<Head(template)>>)
             \o replace_content(Tail(template), with)

MathResult(kind, val, trace) == [kind |-> kind, val |-> val, trace |-> trace]

\* an external step: the operation, its argument, its outcome and the
\* standard output captured
Step(op, arg, res, stdout) == [op |-> op, arg |-> arg, res |-> res, stdout |-> stdout]
Outcome(ok) == IF ok THEN "ok" ELSE "failed"

\* render_math_to_svg without the check of line 623 that the DVI file exists
render_math_to_svg_unchecked_dvi(math, is_display, env) ==
    LET inner_contents ==
            IF is_display THEN <<"\\[">> \o math \o <<"\\]">>
            ELSE <<"$">> \o math \o <<"$">>
        latex_content == replace_content(math_template, inner_contents)
        t1 == <<Step("tempdir", <<>>, Outcome(env.tempdir), <<>>)>>
        t2 == Append(t1, Step("write", latex_content, Outcome(env.write), <<>>))
        t3 == Append(t2, Step("latex", <<>>, env.latex, env.latex_stdout))
        t5 == Append(t3, Step("dvisvgm", <<>>, env.dvisvgm, env.dvisvgm_stdout))
    IN  IF ~env.tempdir THEN MathResult("Panic", <<>>, t1)
        ELSE IF ~env.write THEN MathResult("Panic", <<>>, t2)
        ELSE IF env.latex = "nospawn" THEN MathResult("Panic", <<>>, t3)
        ELSE IF env.latex = "fail"
        THEN MathResult("Err", <<"LaTeX failed: ">> \o env.latex_stdout, t3)
        ELSE IF env.dvisvgm = "nospawn" THEN MathResult("Panic", <<>>, t5)
        ELSE MathResult("Ok", env.dvisvgm_stdout, t5)

render_math_to_svg(math, is_display, env) ==
    LET inner_contents ==
            IF is_display THEN <<"\\[">> \o math \o <<"\\]">>
            ELSE <<"$">> \o math \o <<"$">>
        latex_content == replace_content(math_template, inner_contents)
        t1 == <<Step("tempdir", <<>>, Outcome(env.tempdir), <<>>)>>
        t2 == Append(t1, Step("write", latex_content, Outcome(env.write), <<>>))
        t3 == Append(t2, Step("latex", <<>>, env.latex, env.latex_stdout))
        t4 == Append(t3, Step("dvi_exists", <<>>, Outcome(env.dvi), <<>>))
        t5 == Append(t4, Step("dvisvgm", <<>>, env.dvisvgm, env.dvisvgm_stdout))
    IN  IF ~env.tempdir THEN MathResult("Panic", <<>>, t1)
        ELSE IF ~env.write THEN MathResult("Panic", <<>>, t2)
        ELSE IF env.latex = "nospawn" THEN MathResult("Panic", <<>>, t3)
        ELSE IF env.latex = "fail"
        THEN MathResult("Err", <<"LaTeX failed: ">> \o env.latex_stdout, t3)
        ELSE IF ~env.dvi
        THEN MathResult("Err", <<"DVI file not found at ", "{dvi_path:?}">>, t4)
        ELSE IF env.dvisvgm = "nospawn" THEN MathResult("Panic", <<>>, t5)
        ELSE MathResult("Ok", env.dvisvgm_stdout, t5)

(***************************************************************************)
(* Text::render.  A rendering is [ok, s, trace]: ok is FALSE when the      *)
(* process panicked, s is the HTML (the literal pieces of each format      *)
(* string are single elements, the interpolated strings are their          *)
(* characters) and trace the external steps taken.                         *)
(***************************************************************************)
Rendered(s) == [ok |-> TRUE, s |-> s, trace |-> <<>>]

\* math_span with the result unwrapped: an Err panics
math_span_unwrap(class, r) ==
    [ok |-> r.kind = "Ok",
     s |-> IF r.kind # "Ok" THEN <<>> ELSE <<class>> \o r.val \o <<"</span>">>,
     trace |-> r.trace]

\* unwrap_or_else(|e| format!("<code class='latex-error'>{}</code>", e)) and
\* the span around it
math_span(class, r) ==
    [ok |-> r.kind # "Panic",
     s |-> IF r.kind = "Panic" THEN <<>>
           ELSE <<class>>
                \o (IF r.kind = "Ok" THEN r.val
                    ELSE <<"<code class='latex-error'>">> \o r.val \o <<"</code>">>)
                \o <<"</span>">>,
     trace |-> r.trace]

Text_render(t, env) ==
    CASE t.fmt = Plain -> Rendered(t.src)
      [] t.fmt = Bold ->
            Rendered(<<"<span class=\"bold\"> ">> \o t.src \o <<" </span>">>)
      [] t.fmt = Italic ->
            Rendered(<<"<span class=\"italic\"> ">> \o t.src \o <<" </span>">>)
      [] t.fmt = InlineMath ->
            math_span("<span class=\"inline-math\">",
                      render_math_to_svg(t.src, FALSE, env))
      [] t.fmt = InlineCode ->
            Rendered(<<" <span class=\"inline-code\">">> \o t.src \o <<"</span>">>)
      [] t.fmt.tag = "Link" ->
            Rendered(<<"<a href=\"">> \o t.fmt.url \o <<"\">">> \o t.src \o <<"</a>">>)
      [] t.fmt = FootnoteRef ->
            Rendered(<<"<sup id=\"ref">> \o t.src \o <<"\"><a href=\"#fn">> \o t.src
                     \o <<"\">[">> \o t.src \o <<"]</a></sup>">>)
      [] OTHER -> Rendered(t.src)

\* the number of calls of render_math_to_svg that rendering the runs makes
math_calls(chunks) ==
    Cardinality({k \in 1..Len(chunks) : chunks[k].fmt = InlineMath})

\* chunks.iter().map(|text| text.render(cfg)).collect::<String>(): the runs in
\* order, the k-th call of the pipeline meeting envs[k]; a panic ends it
RECURSIVE render_chunks(_, _)
render_chunks(chunks, envs) ==
    IF chunks = <<>> THEN Rendered(<<>>)
    ELSE LET is_math == Head(chunks).fmt = InlineMath
             r == Text_render(Head(chunks), IF is_math THEN Head(envs) ELSE <<>>)
             rest == render_chunks(Tail(chunks), IF is_math THEN Tail(envs) ELSE envs)
         IN  IF ~r.ok THEN r
             ELSE [ok |-> rest.ok, s |-> r.s \o rest.s, trace |-> r.trace \o rest.trace]

(***************************************************************************)
(* Block::render, the arm of Block::List (lines 544-587): the loop's       *)
(* locals are st = [s, current_level].                                     *)
(***************************************************************************)
list_tag(is_ordered) == IF is_ordered THEN "ol" ELSE "ul"
open_tag(tag) == IF tag = "ol" THEN "<ol>" ELSE "<ul>"
close_tag(tag) == IF tag = "ol" THEN "</ol>" ELSE "</ul>"

\* n repetitions of the elements of unit
RECURSIVE repeat(_, _)
repeat(unit, n) == IF n <= 0 THEN <<>> ELSE unit \o repeat(unit, n - 1)

\* lines 545-550
list_init(tag) == [s |-> <<open_tag(tag)>>, current_level |-> 0]

\* list_item with an "<li>" opened for every level of a rise
list_item_li_per_level(st, i, item, inner_text, tag) ==
    LET change ==
            IF item.level > st.current_level
            THEN repeat(<<open_tag(tag), "<li>">>, item.level - st.current_level)
            ELSE IF item.level < st.current_level
            THEN <<"</li>">>
                 \o repeat(<<close_tag(tag), "</li>">>, st.current_level - item.level)
            ELSE IF i > 0 THEN <<"</li>">>
            ELSE <<>>
    IN  [s |-> st.s \o change \o <<"<li>">> \o inner_text,
         current_level |-> item.level]

\* list_item with a level closed without the "</li>" of line 566
list_item_unclosed(st, i, item, inner_text, tag) ==
    LET change ==
            IF item.level > st.current_level
            THEN repeat(<<open_tag(tag)>>, item.level - st.current_level)
            ELSE IF item.level < st.current_level
            THEN <<"</li>">>
                 \o repeat(<<close_tag(tag)>>, st.current_level - item.level)
            ELSE IF i > 0 THEN <<"</li>">>
            ELSE <<>>
    IN  [s |-> st.s \o change \o <<"<li>">> \o inner_text,
         current_level |-> item.level]

\* lines 552-576: the iteration for item, of index i (from 0)
list_item(st, i, item, inner_text, tag) ==
    LET change ==
            IF item.level > st.current_level
            THEN repeat(<<open_tag(tag)>>, item.level - st.current_level)
            ELSE IF item.level < st.current_level
            THEN <<"</li>">>
                 \o repeat(<<close_tag(tag), "</li>">>, st.current_level - item.level)
            ELSE IF i > 0 THEN <<"</li>">>
            ELSE <<>>
    IN  [s |-> st.s \o change \o <<"<li>">> \o inner_text,
         current_level |-> item.level]

\* lines 578-586
list_close(st, tag) ==
    st.s \o <<"</li>">>
         \o repeat(<<close_tag(tag), "</li>">>, st.current_level)
         \o <<close_tag(tag)>>

(***************************************************************************)
(* Block::render and render_document.  envs are the outcomes that the      *)
(* calls of render_math_to_svg of the block meet, in order.                *)
(***************************************************************************)
\* cfg.images_dir: main, line 56
images_dir == <<"/", "s", "t", "a", "t", "i", "c", "/", "i", "m", "a", "g", "e", "s">>

\* Path::join: an absolute path replaces the base
path_join(base, p) == IF starts_with(p, <<"/">>) THEN p ELSE base \o <<"/">> \o p

RECURSIVE sum_math_calls(_)
sum_math_calls(items) ==
    IF items = <<>> THEN 0
    ELSE math_calls(Head(items).content) + sum_math_calls(Tail(items))

block_math_calls(block) ==
    CASE block.kind \in {"Paragraph", "Footnote"} -> math_calls(block.texts)
      [] block.kind = "Math" -> 1
      [] block.kind = "List" -> sum_math_calls(block.items)
      [] OTHER -> 0

\* the loop of lines 552-576 over the items from index i on
RECURSIVE list_items(_, _, _, _, _)
list_items(st, i, items, envs, tag) ==
    IF items = <<>> THEN [ok |-> TRUE, st |-> st, trace |-> <<>>]
    ELSE LET n == math_calls(Head(items).content)
             inner_text == render_chunks(Head(items).content, SubSeq(envs, 1, n))
             rest == list_items(list_item(st, i, Head(items), inner_text.s, tag), i + 1,
                                Tail(items), SubSeq(envs, n + 1, Len(envs)), tag)
         IN  IF ~inner_text.ok THEN [ok |-> FALSE, st |-> st, trace |-> inner_text.trace]
             ELSE [rest EXCEPT !.trace = inner_text.trace \o @]

Block_render(block, envs) ==
    CASE block.kind = "Paragraph" ->
            LET c == render_chunks(block.texts, envs)
            IN  [c EXCEPT !.s = <<"<p>">> \o @ \o <<"</p>\n">>]
      [] block.kind = "Header" ->
            LET tag == IF block.level = 1 THEN "h1" ELSE "h2"
            IN  Rendered(IF tag = "h1"
                         THEN <<"<h1>">> \o block.src \o <<"</h1>\n", "<hr><br>">>
                         ELSE <<"<h2>">> \o block.src \o <<"</h2>\n">>)
      [] block.kind = "Math" ->
            math_span("<span class=\"display-math\">",
                      render_math_to_svg(block.src, FALSE, envs[1]))
      [] block.kind = "Code" ->
            Rendered(<<"<pre><code class=\"code-">> \o block.lang \o <<"\">">>
                     \o block.src \o <<"</code></pre>">>)
      [] block.kind = "Image" ->
            LET path_str == path_join(images_dir, block.url)
            IN  Rendered(<<"<img src=\"">> \o path_str \o <<"\" alt=\"">> \o block.alt
                         \o (IF block.width = DefaultWidth
                             THEN <<"\" class=\"image\">">>
                             ELSE <<"\" class=\"image\" style=\"width: ">>
                                  \o block.width \o <<"%;\">">>))
      [] block.kind = "Html" -> Rendered(block.src)
      [] block.kind = "Quote" ->
            Rendered(<<"<p class=quote>">> \o block.src \o <<"</p>\n">>)
      [] block.kind = "Footnote" ->
            LET c == render_chunks(block.texts, envs)
            IN  [c EXCEPT !.s = <<"<p id=\"fn">> \o block.id \o <<"\"><a href=\"#ref">>
                                \o block.id \o <<"\">[">> \o block.id \o <<"]</a> ">>
                                \o @ \o <<"</p>">>]
      [] block.kind = "List" ->
            LET tag == list_tag(block.is_ordered)
                r == list_items(list_init(tag), 0, block.items, envs, tag)
            IN  [ok |-> r.ok, s |-> IF r.ok THEN list_close(r.st, tag) ELSE <<>>,
                 trace |-> r.trace]

(***************************************************************************)
(* State.                                                                  *)
(***************************************************************************)
VARIABLES
    pc,               \* the position of the program
    src,              \* parse_text: the argument
    chars,            \* parse_text: the characters the iterator still holds
    s_buf,            \* parse_text: the accumulation buffer
    texts,            \* parse_text: the runs pushed so far
    escaped,          \* parse_text: the escape flag
    fmt,              \* parse_text: the current format
    in_literal_mode,  \* parse_text: the literal-mode flag
    input,            \* parse_blocks: the lines of the argument
    lines,            \* parse_blocks: the lines the iterator still holds
    text_buf,         \* parse_blocks: the paragraph buffer
    is_new_block,     \* parse_blocks: whether a new block is expected
    blocks,           \* parse_blocks: the blocks pushed so far; then the document
    is_ordered,       \* Block::List: the flag of the list rendered
    list,             \* Block::List: its items
    item_i,           \* Block::List: the number of items the loop has taken
    list_s,           \* Block::List: the string s
    current_level,    \* Block::List: the level of the last item
    block_i,          \* render_document: the number of blocks rendered
    out,              \* the rendering so far
    procs             \* the external steps taken so far

tvars == <<src, chars, s_buf, texts, escaped, fmt, in_literal_mode>>
bvars == <<input, lines, text_buf, is_new_block, blocks>>
lvars == <<is_ordered, list, item_i, list_s, current_level>>
rvars == <<block_i, out, procs>>
vars == <<pc, tvars, bvars, lvars, rvars>>

\* the locals of parse_text as one record
scan_state ==
    [s_buf |-> s_buf, texts |-> texts, escaped |-> escaped, fmt |-> fmt,
     in_literal_mode |-> in_literal_mode]

set_scan_state(st) ==
    /\ s_buf' = st.s_buf
    /\ texts' = st.texts
    /\ escaped' = st.escaped
    /\ fmt' = st.fmt
    /\ in_literal_mode' = st.in_literal_mode

(***************************************************************************)
(* The inline formatter on its own: the texts it is run on.                *)
(***************************************************************************)
LinkPiece == <<"[", "b", "]", "(", "u", ")">>
FootnotePiece == <<"[", "^", "1", "]">>
Pieces ==
    {<<"a">>, <<"*">>, <<"_">>, <<"$">>, <<Backtick>>, <<"\\">>,
     LinkPiece, FootnotePiece}

\* spec.md section 8: \*not bold\*
EscapeExample ==
    <<"\\", "*", "n", "o", "t", " ", "b", "o", "l", "d", "\\", "*">>

\* spec.md section 8: see [doc](http://x) and [^3]
LinkExample ==
    <<"s", "e", "e", " ", "[", "d", "o", "c", "]", "(",
      "h", "t", "t", "p", ":", "/", "/", "x", ")",
      " ", "a", "n", "d", " ", "[", "^", "3", "]">>

\* a link and more text inside a closed backquote span, and text after it
RelinkExample ==
    <<"x", Backtick, "[", "b", "]", "(", "u", ")", "c", Backtick, "d">>

TextInputs ==
    {Concat(p) : p \in UNION {[1..n -> Pieces] : n \in 0..MaxPieces}}
        \cup {EscapeExample, LinkExample, RelinkExample}

\* the locals of parse_text before the loop
scan_is_init ==
    /\ s_buf = scan_init.s_buf
    /\ texts = scan_init.texts
    /\ escaped = scan_init.escaped
    /\ fmt = scan_init.fmt
    /\ in_literal_mode = scan_init.in_literal_mode

TextIdle ==
    /\ src = <<>>
    /\ chars = <<>>
    /\ scan_is_init

RenderIdle ==
    /\ block_i = 0
    /\ out = <<>>
    /\ procs = <<>>

BlocksIdle ==
    /\ input = <<>>
    /\ lines = <<>>
    /\ text_buf = <<>>
    /\ is_new_block = TRUE
    /\ blocks = <<>>

ListIdle ==
    /\ is_ordered = FALSE
    /\ list = <<>>
    /\ item_i = 0
    /\ list_s = <<>>
    /\ current_level = 0

InitText ==
    /\ pc = "scan"
    /\ src \in TextInputs
    /\ chars = src
    /\ scan_is_init
    /\ BlocksIdle
    /\ ListIdle
    /\ RenderIdle

\* one iteration of the loop of lines 353-384
ScanChar ==
    /\ pc = "scan"
    /\ chars # <<>>
    /\ set_scan_state(scan_char(scan_state, Head(chars)))
    /\ chars' = Tail(chars)
    /\ UNCHANGED <<pc, src, bvars, lvars, rvars>>

\* the iterator is exhausted: lines 385-388
ScanEnd ==
    /\ pc = "scan"
    /\ chars = <<>>
    /\ set_scan_state(scan_end(scan_state))
    /\ pc' = "scanned"
    /\ UNCHANGED <<src, chars, bvars, lvars, rvars>>

\* the runs parse_text returned are rendered as a paragraph renders its runs
\* (line 502)
RenderTexts ==
    /\ pc = "scanned"
    /\ \E envs \in [1..math_calls(texts) -> Envs] :
          LET r == render_chunks(texts, envs)
          IN  /\ out' = r.s
              /\ procs' = r.trace
              /\ pc' = IF r.ok THEN "rendered" ELSE "panicked"
    /\ UNCHANGED block_i
    /\ UNCHANGED <<tvars, bvars, lvars>>

NextText == ScanChar \/ ScanEnd \/ RenderTexts

SpecText == InitText /\ [][NextText]_vars

(***************************************************************************)
(* The block segmenter and the document assembler: the documents they are  *)
(* run on, and parse step by step.                                         *)
(***************************************************************************)
BlankLine == <<>>
SpaceLine == <<" ">>
PlainLine == <<"a">>
StyledLine == <<"*", "b", "*", "c">>
HeaderLine == <<"#", " ", "h">>
MathOpenLine == <<"\\", "[">>
MathCloseLine == <<"\\", "]">>
CommentOpenLine == <<"<", "!", "-", "-">>
CommentCloseLine == <<"-", "-", ">">>
HtmlOpenLine == <<"<", "h", "t", "m", "l", ">">>
HtmlCloseLine == <<"<", "/", "h", "t", "m", "l", ">">>
QuoteLine == <<">", ">", " ", "q">>
ImageLine == <<"!", "[", "i", "]", "(", "p", ")">>
BadImageLine == <<"!", "[", "i", ".", " ", "x">>
FootnoteLine == <<"[", "^", "1", "]", ":", " ", "f">>
EmptyFootnoteLine == <<"[", "^", "2", "]", ":">>
BadFootnoteLine == <<"[", "^", "x", ".", " ", "y">>
UlLine == <<"-", " ", "u">>
OlLine == <<"1", ".", " ", "o">>
NestedUlLine == <<" ", " ", " ", " ", "-", " ", "n">>

SegmentLines ==
    {BlankLine, SpaceLine, PlainLine, StyledLine, HeaderLine, Fence, MathOpenLine,
     MathCloseLine, CommentOpenLine, CommentCloseLine, HtmlOpenLine, HtmlCloseLine,
     QuoteLine, ImageLine, BadImageLine, FootnoteLine, EmptyFootnoteLine,
     BadFootnoteLine, UlLine, OlLine, NestedUlLine}

Documents(line_set, max) == UNION {[1..n -> line_set] : n \in 0..max}

segment_state ==
    [lines |-> lines, text_buf |-> text_buf, is_new_block |-> is_new_block,
     blocks |-> blocks, panicked |-> FALSE]

\* the locals after an iteration; an unwrap that failed ends the process
set_segment_state(st) ==
    /\ lines' = st.lines
    /\ text_buf' = st.text_buf
    /\ is_new_block' = st.is_new_block
    /\ blocks' = st.blocks
    /\ pc' = IF st.panicked THEN "panicked" ELSE "segment"

\* parse_blocks is entered: lines 144-147
segment_is_init ==
    /\ lines = segment_init(input).lines
    /\ text_buf = segment_init(input).text_buf
    /\ is_new_block = segment_init(input).is_new_block
    /\ blocks = segment_init(input).blocks

InitBlocks ==
    /\ pc = "segment"
    /\ input \in Documents(SegmentLines, MaxLines)
    /\ segment_is_init
    /\ TextIdle
    /\ ListIdle
    /\ RenderIdle

\* one iteration of the loop of parse_blocks (lines 149-291)
SegmentLine ==
    /\ pc = "segment"
    /\ lines # <<>>
    /\ set_segment_state(segment_line(segment_state))
    /\ UNCHANGED <<input, tvars, lvars, rvars>>

\* the iterator is exhausted: lines 293-298, and parse_blocks returns
SegmentEnd ==
    /\ pc = "segment"
    /\ lines = <<>>
    /\ text_buf' = text_buf
    /\ is_new_block' = is_new_block
    /\ lines' = lines
    /\ blocks' = segment_end(segment_state).blocks
    /\ pc' = "inner"
    /\ UNCHANGED <<input, tvars, lvars, rvars>>

\* parse, lines 139-140: parse_inner on every block
ParseInner ==
    /\ pc = "inner"
    /\ blocks' = parse_inner_all(blocks)
    /\ pc' = "parsed"
    /\ UNCHANGED <<input, lines, text_buf, is_new_block, tvars, lvars, rvars>>

NextBlocks == SegmentLine \/ SegmentEnd \/ ParseInner

SpecBlocks == InitBlocks /\ [][NextBlocks]_vars

(***************************************************************************)
(* The list renderer on its own: the lists it is run on, and the arm of    *)
(* Block::List step by step.                                               *)
(***************************************************************************)
\* the content of the k-th item: one Plain run naming k
ItemContent(k) ==
    <<Text(<<"i", <<"0", "1", "2", "3", "4", "5", "6", "7", "8", "9">>[k + 1]>>, Plain)>>

ListsOfItems ==
    UNION {{[k \in 1..n |-> ListItem(levels[k], ItemContent(k))] :
                levels \in [1..n -> 0..MaxLevel]} : n \in 1..MaxItems}

InitList ==
    /\ pc = "list"
    /\ is_ordered \in BOOLEAN
    /\ list \in ListsOfItems
    /\ item_i = 0
    /\ list_s = list_init(list_tag(is_ordered)).s
    /\ current_level = list_init(list_tag(is_ordered)).current_level
    /\ TextIdle
    /\ BlocksIdle
    /\ RenderIdle

\* one iteration of for (i, item) in list.iter().enumerate()
RenderItem ==
    /\ pc = "list"
    /\ item_i < Len(list)
    /\ LET item == list[item_i + 1]
       IN  \E envs \in [1..math_calls(item.content) -> Envs] :
             LET inner_text == render_chunks(item.content, envs)
                 st == list_item([s |-> list_s, current_level |-> current_level],
                                 item_i, item, inner_text.s, list_tag(is_ordered))
             IN  IF inner_text.ok
                 THEN /\ list_s' = st.s
                      /\ current_level' = st.current_level
                      /\ item_i' = item_i + 1
                      /\ pc' = pc
                 ELSE /\ pc' = "panicked"
                      /\ UNCHANGED <<list_s, current_level, item_i>>
    /\ UNCHANGED <<is_ordered, list, tvars, bvars, rvars>>

\* the loop is over: lines 578-586
RenderListClose ==
    /\ pc = "list"
    /\ item_i = Len(list)
    /\ list_s' = list_close([s |-> list_s, current_level |-> current_level],
                            list_tag(is_ordered))
    /\ pc' = "list_done"
    /\ UNCHANGED <<is_ordered, list, item_i, current_level, tvars, bvars, rvars>>

NextList == RenderItem \/ RenderListClose

SpecList == InitList /\ [][NextList]_vars

(***************************************************************************)
(* compile_post, lines 109-112: parse, then render_document block by       *)
(* block, on documents with math and images.                               *)
(***************************************************************************)
InlineMathLine == <<"$", "x", "$">>
WidthImageLine == <<"!", "[", "i", "]", "(", "p", ")", "{", "5", "0", "}">>
BigWidthImageLine ==
    <<"!", "[", "i", "]", "(", "p", ")", "{",
      "4", "2", "9", "4", "9", "6", "7", "2", "9", "6", "}">>

DocLines ==
    {BlankLine, PlainLine, InlineMathLine, MathOpenLine, MathCloseLine,
     WidthImageLine, BigWidthImageLine}

InitDoc ==
    /\ pc = "segment"
    /\ input \in Documents(DocLines, MaxDocLines)
    /\ segment_is_init
    /\ TextIdle
    /\ ListIdle
    /\ RenderIdle

\* render_document, line 456: block.render(cfg) of the next block
RenderBlock ==
    /\ pc = "parsed"
    /\ block_i < Len(blocks)
    /\ \E envs \in [1..block_math_calls(blocks[block_i + 1]) -> Envs] :
          LET r == Block_render(blocks[block_i + 1], envs)
          IN  /\ procs' = procs \o r.trace
              /\ IF r.ok
                 THEN /\ out' = out \o r.s
                      /\ block_i' = block_i + 1
                      /\ pc' = pc
                 ELSE /\ pc' = "panicked"
                      /\ UNCHANGED <<out, block_i>>
    /\ UNCHANGED <<tvars, bvars, lvars>>

\* render_document returns
RenderDone ==
    /\ pc = "parsed"
    /\ block_i = Len(blocks)
    /\ pc' = "done"
    /\ UNCHANGED <<tvars, bvars, lvars, rvars>>

NextDoc == SegmentLine \/ SegmentEnd \/ ParseInner \/ RenderBlock \/ RenderDone

SpecDoc == InitDoc /\ [][NextDoc]_vars

(***************************************************************************)
(* Properties of the inline formatter.                                     *)
(***************************************************************************)
\* the loop is about to dispatch the delimiter c with the match of line 370
AtDelimiter(c) ==
    /\ pc = "scan"
    /\ chars # <<>>
    /\ Head(chars) = c
    /\ ~escaped
    /\ ~in_literal_mode

\* C1: every unescaped "*" scanned outside literal mode turns the current
\* style from Plain to Bold and from Bold to Plain, and every such "_" does
\* the same for Italic, wherever the delimiter stands in the text (also when
\* the accumulation buffer is empty at that moment).
C1_DelimiterToggles ==
    [][/\ AtDelimiter("*") /\ fmt = Plain => fmt' = Bold
       /\ AtDelimiter("*") /\ fmt = Bold => fmt' = Plain
       /\ AtDelimiter("_") /\ fmt = Plain => fmt' = Italic
       /\ AtDelimiter("_") /\ fmt = Italic => fmt' = Plain]_vars

\* C2: outside literal mode a backslash sets the escape flag and is not
\* emitted; the character after it is appended to the buffer as it is, and
\* changes neither the style nor the literal mode nor the runs; the text
\* \*not bold\* yields exactly one run, Plain, with the text *not bold*.
C2_EscapeIsLiteral ==
    [][/\ AtDelimiter("\\") =>
            /\ escaped'
            /\ s_buf' = s_buf
            /\ texts' = texts
            /\ fmt' = fmt
            /\ in_literal_mode' = in_literal_mode
       /\ (pc = "scan" /\ chars # <<>> /\ escaped) =>
            /\ ~escaped'
            /\ s_buf' = Append(s_buf, Head(chars))
            /\ texts' = texts
            /\ fmt' = fmt
            /\ in_literal_mode' = in_literal_mode
       /\ (pc' = "scanned" /\ src = EscapeExample) =>
            texts' = <<Text(<<"*", "n", "o", "t", " ", "b", "o", "l", "d", "*">>,
                            Plain)>>]_vars

C2_Witness ==
    /\ pc = "scanned"
    /\ src = EscapeExample
    /\ Len(texts) = 1
    /\ texts[1].fmt = Plain
    /\ texts[1].src[1] = "*"

\* the offsets of src at which a link and a footnote reference stand
LinkStarts(s) == {i \in 0..(Len(s) - 1) : link_match_at(s, i).found}
FootnoteStarts(s) == {i \in 0..(Len(s) - 1) : footnote_match_at(s, i).found}

StyleDelimiters == {"*", "_", "$", Backtick, "\\"}

\* no style delimiter, and every link stands before every footnote reference
LinksThenFootnotes(s) ==
    /\ \A k \in 1..Len(s) : s[k] \notin StyleDelimiters
    /\ \A i \in LinkStarts(s) : \A j \in FootnoteStarts(s) : i < j

\* the markup a run was parsed from
unparse(t) ==
    CASE t.fmt.tag = "Link" -> <<"[">> \o t.src \o <<"]", "(">> \o t.fmt.url \o <<")">>
      [] t.fmt = FootnoteRef -> <<"[", "^">> \o t.src \o <<"]">>
      [] OTHER -> t.src

RunsOf(ts, tag) == {k \in 1..Len(ts) : ts[k].fmt.tag = tag}

\* the offsets of the rendering at which the element open, with the
\* interpolated string arg and the literal close after it, stands
ElementsAt(html, open, arg, close) ==
    {i \in 1..Len(html) :
        /\ html[i] = open
        /\ i + Len(arg) + 1 <= Len(html)
        /\ SubSeq(html, i + 1, i + Len(arg)) = arg
        /\ html[i + Len(arg) + 1] = close}

Occurrences(html, token) == {i \in 1..Len(html) : html[i] = token}

\* C3: for a text with no style delimiter in which the links are followed by
\* the footnote references, parse_text emits one Link run per link and one
\* FootnoteRef run per footnote reference, in source order, with the text in
\* between as Plain runs; rendered, see [doc](http://x) and [^3] holds exactly
\* one anchor with href http://x and exactly one forward reference to id 3.
C3_LinksAndFootnotes ==
    /\ (pc \in {"scanned", "rendered"} /\ LinksThenFootnotes(src)) =>
          /\ \A k \in 1..Len(texts) :
                texts[k].fmt.tag \in {"Plain", "Link", "FootnoteRef"}
          /\ Concat([k \in 1..Len(texts) |-> unparse(texts[k])]) = src
          /\ Cardinality(RunsOf(texts, "Link")) = Cardinality(LinkStarts(src))
          /\ Cardinality(RunsOf(texts, "FootnoteRef"))
                = Cardinality(FootnoteStarts(src))
    /\ (pc = "rendered" /\ LinksThenFootnotes(src)) =>
          /\ Cardinality(Occurrences(out, "<a href=\""))
                = Cardinality(LinkStarts(src))
          /\ Cardinality(Occurrences(out, "<sup id=\"ref"))
                = Cardinality(FootnoteStarts(src))
    /\ (pc = "rendered" /\ src = LinkExample) =>
          /\ Cardinality(ElementsAt(out, "<a href=\"",
                <<"h", "t", "t", "p", ":", "/", "/", "x">>, "\">")) = 1
          /\ Cardinality(ElementsAt(out, "<sup id=\"ref", <<"3">>,
                "\"><a href=\"#fn")) = 1

C3_Witness ==
    /\ pc = "rendered"
    /\ src = LinkExample
    /\ Len(texts) = 4
    /\ texts[2].fmt = Link(<<"h", "t", "t", "p", ":", "/", "/", "x">>)
    /\ texts[4] = Text(<<"3">>, FootnoteRef)

(***************************************************************************)
(* Properties of the block segmenter and the document assembler.           *)
(***************************************************************************)
is_blank(line) == trim(line) = <<>>

\* the line opens a construct whose body the segmenter takes to its closing line
OpensBody(line) ==
    \/ starts_with(line, Fence)
    \/ starts_with(line, <<"\\", "[">>)
    \/ starts_with(line, <<"<", "!", "-", "-">>)
    \/ starts_with(line, <<"<", "h", "t", "m", "l", ">">>)

\* the last line the step from this state to the next took from the iterator
LastTaken == lines[Len(lines) - Len(lines')]

\* C4: after a blank line was read outside the body of a fence, math block,
\* comment or html block a new block is expected (the next non-blank line is
\* dispatched on its prefix), also when the blank line directly follows a
\* list item line.
C4_BlankLineExpectsNewBlock ==
    [][(/\ pc = "segment"
        /\ lines # <<>>
        /\ ~(is_new_block /\ ~is_blank(Head(lines)) /\ OpensBody(Head(lines)))
        /\ is_blank(LastTaken))
            => is_new_block']_vars

\* the line starts no block: it matches no prefix of the dispatch and neither
\* list item pattern
OpensNothing(line) ==
    /\ ~starts_with(line, <<"#">>)
    /\ ~OpensBody(line)
    /\ ~starts_with(line, <<"!", "[">>)
    /\ ~starts_with(line, <<">", ">", " ">>)
    /\ ~starts_with(line, <<"[", "^">>)
    /\ ~is_ol_li(line)
    /\ ~is_ul_li(line)

\* C5: a document of non-blank lines whose first line opens no block yields
\* exactly one block, a Paragraph of one Raw run whose text is every line
\* followed by one space, in order; no later line starts another block.
C5_OneParagraph ==
    (/\ pc = "inner"
     /\ input # <<>>
     /\ \A k \in 1..Len(input) : ~is_blank(input[k])
     /\ OpensNothing(input[1]))
        => blocks = <<Paragraph(<<Text(push_lines(input, <<" ">>), Raw)>>)>>

C5_Witness ==
    /\ pc = "inner"
    /\ input = <<PlainLine, HeaderLine, UlLine>>
    /\ Len(blocks) = 1
    /\ blocks[1].kind = "Paragraph"

\* the runs a block holds
RunsOfBlock(b) ==
    IF b.kind \in {"Paragraph", "Footnote"} THEN {b.texts[k] : k \in 1..Len(b.texts)}
    ELSE IF b.kind = "List"
    THEN UNION {{b.items[i].content[k] : k \in 1..Len(b.items[i].content)} :
                    i \in 1..Len(b.items)}
    ELSE {}

\* C10: after parse returned, no run of a Paragraph, a Footnote or a List
\* item has the style Raw, also for a footnote definition with empty content.
C10_NoRawAfterParse ==
    pc = "parsed" =>
        \A k \in 1..Len(blocks) : \A t \in RunsOfBlock(blocks[k]) : t.fmt # Raw

C10_Witness ==
    /\ pc = "parsed"
    /\ input = <<EmptyFootnoteLine, FootnoteLine, BlankLine>>
    /\ Len(blocks) = 2
    /\ blocks[1] = Footnote(<<"2">>, <<>>)
    /\ blocks[2].kind = "Paragraph"
    /\ blocks[2].texts # <<>>

(***************************************************************************)
(* Properties of the list renderer.                                        *)
(***************************************************************************)
\* the number of elements of html[1..upto] that are token
CountTo(html, token, upto) == Cardinality({k \in 1..upto : html[k] = token})

\* the elements opened by open and closed by close are balanced in html, and
\* none is closed while none is open
WellNested(html, open, close) ==
    /\ CountTo(html, open, Len(html)) = CountTo(html, close, Len(html))
    /\ \A n \in 1..Len(html) : CountTo(html, close, n) <= CountTo(html, open, n)

ListWellFormed ==
    /\ WellNested(list_s, open_tag(list_tag(is_ordered)), close_tag(list_tag(is_ordered)))
    /\ WellNested(list_s, "<li>", "</li>")

\* C6: for every non-empty sequence of item levels, also one whose first
\* level is above 0 or where a level rises by more than one, the rendering
\* of the list is well-formed: as many closing as opening list tags and li
\* tags, and no closing tag while no element of its kind is open.
C6_AnyLevelsWellFormed == pc = "list_done" => ListWellFormed

\* the levels start at 0 and rise by exactly one where they rise
StepwiseLevels ==
    /\ list[1].level = 0
    /\ \A k \in 1..(Len(list) - 1) :
          list[k + 1].level > list[k].level => list[k + 1].level = list[k].level + 1

\* the offset in html of the k-th "<li>"
ItemOffset(html, k) ==
    CHOOSE n \in 1..Len(html) : html[n] = "<li>" /\ CountTo(html, "<li>", n) = k

\* the list elements open at offset n of html
OpenLists(html, tag, n) == CountTo(html, open_tag(tag), n) - CountTo(html, close_tag(tag), n)

\* C7: when the levels start at 0 and every rise is of exactly one level,
\* the rendering has as many closing as opening list tags and li tags, and
\* each item of level L is emitted while exactly L + 1 list elements are open.
C7_StepwiseLevelsNest ==
    (pc = "list_done" /\ StepwiseLevels) =>
        /\ ListWellFormed
        /\ CountTo(list_s, "<li>", Len(list_s)) = Len(list)
        /\ \A k \in 1..Len(list) :
              OpenLists(list_s, list_tag(is_ordered), ItemOffset(list_s, k))
                  = list[k].level + 1

C7_Witness ==
    /\ pc = "list_done"
    /\ [k \in 1..Len(list) |-> list[k].level] = <<0, 1, 1, 0>>
    /\ ListWellFormed

(***************************************************************************)
(* Properties of the renderer and the math pipeline.                       *)
(***************************************************************************)
\* the external steps and the rendering that the step to the next state adds
NewSteps == SubSeq(procs', Len(procs) + 1, Len(procs'))
NewOut == SubSeq(out', Len(out) + 1, Len(out'))

\* the typesetter ran and exited non-zero
TypesetFailed(steps) ==
    \E k \in 1..Len(steps) : steps[k].op = "latex" /\ steps[k].res = "fail"

\* a step other than the typesetter's exit failed: no temporary directory,
\* no .tex file written, a command that could not be spawned
OtherStepFailed(steps) ==
    \E k \in 1..Len(steps) :
        \/ steps[k].op \in {"tempdir", "write"} /\ steps[k].res = "failed"
        \/ steps[k].op \in {"latex", "dvisvgm"} /\ steps[k].res = "nospawn"

\* the error marker of a typesetter that printed stdout, inside its span
ErrorMarker(span, stdout) ==
    <<span, "<code class='latex-error'>", "LaTeX failed: ">> \o stdout
        \o <<"</code>", "</span>">>

\* seq stands in html at some offset
Contains(html, seq) ==
    \E n \in 0..(Len(html) - Len(seq)) : SubSeq(html, n + 1, n + Len(seq)) = seq

\* C8: when the typesetter exits non-zero for a math block or an inline math
\* run (and no other external step of the block fails), the block or run
\* renders as the error marker with the captured standard output inside its
\* display-math or inline-math span, and render_document goes on with the
\* next block: it renders every block, in order.
C8_TypesetFailureIsLocal ==
    [][/\ (/\ pc = "parsed"
           /\ block_i < Len(blocks)
           /\ TypesetFailed(NewSteps)
           /\ ~OtherStepFailed(NewSteps)) =>
                /\ pc' = "parsed"
                /\ block_i' = block_i + 1
                /\ out' = out \o NewOut
                /\ \A k \in 1..Len(NewSteps) :
                      (NewSteps[k].op = "latex" /\ NewSteps[k].res = "fail") =>
                          IF blocks[block_i + 1].kind = "Math"
                          THEN NewOut = ErrorMarker("<span class=\"display-math\">",
                                                    NewSteps[k].stdout)
                          ELSE Contains(NewOut,
                                        ErrorMarker("<span class=\"inline-math\">",
                                                    NewSteps[k].stdout))
       /\ pc' = "done" => block_i' = Len(blocks')]_vars

C8_Witness ==
    /\ pc = "done"
    /\ Len(blocks) = 2
    /\ blocks[1].kind = "Math"
    /\ TypesetFailed(procs)
    /\ out = ErrorMarker("<span class=\"display-math\">", LatexLog)
                \o <<"<p>", "a", " ", "</p>\n">>

\* C9: no input document and no failure of an external step aborts the
\* process: parse and render_document return for every input, every outcome
\* of the steps of the math pipeline and every image width.
C9_NeverAborts == pc # "panicked"

(***************************************************************************)
(* The list builder of parse_blocks.                                       *)
(***************************************************************************)
\* the line is dispatched to one of the two list arms: no earlier prefix of
\* the dispatch matches it, and one of the item patterns does
OpensList(line) ==
    /\ ~is_blank(line)
    /\ ~starts_with(line, <<"#">>)
    /\ ~OpensBody(line)
    /\ ~starts_with(line, <<"!", "[">>)
    /\ ~starts_with(line, <<">", ">", " ">>)
    /\ ~starts_with(line, <<"[", "^">>)
    /\ (is_ol_li(line) \/ is_ul_li(line))

\* the item of a line that matches one of the item patterns
ItemOf(line) ==
    IF is_ol_li(line) THEN captures_ol_li(line).item ELSE captures_ul_li(line).item

\* the number of lines at the head of ls that match an item pattern
ItemRun(ls) ==
    CHOOSE n \in 0..Len(ls) :
        /\ \A k \in 1..n : is_ol_li(ls[k]) \/ is_ul_li(ls[k])
        /\ n < Len(ls) => ~(is_ol_li(ls[n + 1]) \/ is_ul_li(ls[n + 1]))

\* C11: the step that starts a list adds exactly one block, a List whose
\* items are those of the first line and of every directly following line
\* that matches the ordered or the unordered pattern, one item per line in
\* source order, and whose is_ordered flag is the kind of the first line,
\* whatever the kinds of the later items.
C11_ListTakesItemRun ==
    [][(/\ pc = "segment"
        /\ lines # <<>>
        /\ is_new_block
        /\ OpensList(Head(lines)))
            => blocks' = Append(blocks,
                                List(is_ol_li(Head(lines)),
                                     [k \in 1..ItemRun(lines) |-> ItemOf(lines[k])]))]_vars

C11_Witness ==
    /\ input = <<OlLine, UlLine, NestedUlLine>>
    /\ pc = "segment"
    /\ lines = <<>>
    /\ Len(blocks) = 1
    /\ blocks[1].kind = "List"
    /\ blocks[1].is_ordered
    /\ Len(blocks[1].items) = 3
    /\ blocks[1].items[3].level = 1

\* the line has the image or the footnote prefix and fails the pattern of
\* that arm
Malformed(line) ==
    \/ starts_with(line, <<"!", "[">>) /\ ~image_regex(line).found
    \/ starts_with(line, <<"[", "^">>) /\ ~footnote_regex(line).found

\* C12: when a new block is expected, the step that takes a line with the
\* image or footnote prefix that fails its pattern adds no block (no List
\* either, also when the line matches an item pattern), leaves the paragraph
\* buffer as it was, takes that line only and goes on with the loop.
C12_MalformedLineIsDropped ==
    [][(/\ pc = "segment"
        /\ lines # <<>>
        /\ is_new_block
        /\ Malformed(Head(lines)))
            => /\ blocks' = blocks
               /\ text_buf' = text_buf
               /\ lines' = Tail(lines)
               /\ pc' = "segment"]_vars

C12_Witness ==
    /\ input = <<BadFootnoteLine, BlankLine, BadImageLine>>
    /\ is_ol_li(BadFootnoteLine)
    /\ is_ol_li(BadImageLine)
    /\ pc = "inner"
    /\ blocks = <<>>

\* the rendering of the content of the k-th item of the list
ItemHtml(k) == render_chunks(list[k].content, <<>>).s

\* C13: for every non-empty sequence of items of any levels (a first level
\* above 0, a rise or a drop of several levels), the rendering of the list
\* never panics and runs to its end; after i items it holds exactly i "<li>"
\* and, at the end, the k-th "<li>" is directly followed by the rendered
\* content of the k-th item.
C13_OneLiPerItemInOrder ==
    /\ pc # "panicked"
    /\ pc = "list" => CountTo(list_s, "<li>", Len(list_s)) = item_i
    /\ pc = "list_done" =>
          /\ item_i = Len(list)
          /\ CountTo(list_s, "<li>", Len(list_s)) = Len(list)
          /\ \A k \in 1..Len(list) :
                SubSeq(list_s, ItemOffset(list_s, k) + 1,
                       ItemOffset(list_s, k) + Len(ItemHtml(k))) = ItemHtml(k)

C13_Witness ==
    /\ pc = "list_done"
    /\ Len(list) = 4
    /\ list[1].level = 0
    /\ list[2].level = 2
    /\ list[3].level = 0
    /\ list[4].level = 1
    /\ ~is_ordered
    /\ list_s = <<"<ul>", "<li>", "i", "1", "<ul>", "<ul>", "<li>", "i", "2",
                  "</li>", "</ul>", "</li>", "</ul>", "</li>", "<li>", "i", "3",
                  "<ul>", "<li>", "i", "4", "</li>", "</ul>", "</li>", "</ul>">>

(***************************************************************************)
(* Literal mode and the postprocessing of links and footnote references.   *)
(***************************************************************************)
\* C14: at every step of the scan of parse_text the literal-mode flag is
\* true exactly when the current style is InlineMath or InlineCode: an
\* opening "$" or backquote sets both, the matching closing delimiter clears
\* both, also when the buffer is empty at the delimiter (the first character
\* of the text, or an empty span).
C14_LiteralModeMatchesStyle ==
    pc = "scan" => (in_literal_mode <=> fmt \in {InlineMath, InlineCode})

\* the scan is in literal mode and about to read a character
InLiteral ==
    /\ pc = "scan"
    /\ chars # <<>>
    /\ in_literal_mode

\* c closes the literal span of the current style
IsCloser(c) ==
    \/ c = "$" /\ fmt = InlineMath
    \/ c = Backtick /\ fmt = InlineCode

\* the character read just before the next one, "" at the start of the text
PrevChar == IF Len(src) > Len(chars) THEN src[Len(src) - Len(chars)] ELSE ""

\* C15 as stated: in literal mode the closing delimiter that directly follows
\* a backslash is appended to the buffer and does not close the span; every
\* other character is appended verbatim.
C15_BackslashEscapesCloser ==
    [][/\ (InLiteral /\ IsCloser(Head(chars)) /\ PrevChar = "\\") =>
            /\ s_buf' = Append(s_buf, Head(chars))
            /\ in_literal_mode'
       /\ (InLiteral /\ ~IsCloser(Head(chars))) =>
            s_buf' = Append(s_buf, Head(chars))]_vars

\* C15, amended: in literal mode no escape is processed: the escape flag is
\* not set and is not set by the next character, a backslash included; the
\* closing delimiter of the current style closes the span, also directly
\* after a backslash; every other character is appended verbatim and
\* changes neither the style nor the runs.
C15_NoEscapeInLiteral ==
    [][InLiteral =>
          /\ ~escaped
          /\ ~escaped'
          /\ IF IsCloser(Head(chars))
             THEN ~in_literal_mode'
             ELSE /\ s_buf' = Append(s_buf, Head(chars))
                  /\ in_literal_mode'
                  /\ texts' = texts
                  /\ fmt' = fmt]_vars

C15_Witness ==
    /\ pc = "scan"
    /\ src = <<"a", "$", "\\", "$">>
    /\ chars = <<>>
    /\ ~in_literal_mode
    /\ fmt = Plain
    /\ texts = <<Text(<<"a">>, Plain), Text(<<"\\">>, InlineMath)>>

\* the next step of the scan calls push_fmted_text on a delimiter
FlushesAtDelimiter ==
    /\ pc = "scan"
    /\ chars # <<>>
    /\ ~escaped
    /\ IF in_literal_mode THEN IsCloser(Head(chars))
       ELSE Head(chars) \in {"*", "_", "$", Backtick}

\* the next step of the scan calls push_fmted_text: on a delimiter or at the
\* end of the text
Flushes == FlushesAtDelimiter \/ (pc = "scan" /\ chars = <<>>)

\* C16: whenever a non-empty buffer is flushed while the style is Bold,
\* Italic, InlineMath or InlineCode, it is emitted as exactly one run of that
\* style with its text unchanged, also when the text holds a link or a
\* footnote reference.
C16_StyledBufferIsOneRun ==
    [][(/\ Flushes
        /\ s_buf # <<>>
        /\ fmt \in {Bold, Italic, InlineMath, InlineCode})
            => texts' = Append(texts, Text(s_buf, fmt))]_vars

\* C17: a non-empty Plain buffer flushed by a following "*", "_", "$" or
\* backquote is split around its links and footnote references exactly as
\* the flush at the end of the text splits it.
C17_PlainBufferSplitAtDelimiter ==
    [][(/\ FlushesAtDelimiter
        /\ s_buf # <<>>
        /\ fmt = Plain)
            => texts' = push_fmted_text(s_buf, texts, Plain, Plain).texts]_vars

(***************************************************************************)
(* The math pipeline seen from render_document: the external steps a block *)
(* takes are the steps added to procs, its HTML the elements added to out. *)
(***************************************************************************)
PipelineOrder == <<"tempdir", "write", "latex", "dvi_exists", "dvisvgm">>

\* the steps named op among steps
StepsOf(steps, op) == {k \in 1..Len(steps) : steps[k].op = op}

\* the next step renders a block that calls render_math_to_svg exactly once
RendersOneMath ==
    /\ pc = "parsed"
    /\ block_i < Len(blocks)
    /\ block_math_calls(blocks[block_i + 1]) = 1

\* the span of the math of the block rendered next
MathSpan ==
    IF blocks[block_i + 1].kind = "Math" THEN "<span class=\"display-math\">"
    ELSE "<span class=\"inline-math\">"

\* the HTML of the rendered block is, or for a run holds, the span with
\* body inside
SpanHolds(body) ==
    IF blocks[block_i + 1].kind = "Math"
    THEN NewOut = <<MathSpan>> \o body \o <<"</span>">>
    ELSE Contains(NewOut, <<MathSpan>> \o body \o <<"</span>">>)

\* the call returned Err(e): the caller shows e in the error element
ReturnedErr(e) == SpanHolds(<<"<code class='latex-error'>">> \o e \o <<"</code>">>)

\* C18: a call of render_math_to_svg takes its external steps in the order
\* temporary directory, write, typesetter, DVI check, converter, each at
\* most once; a typesetter that exits non-zero ends the call with an error
\* that carries its standard output, and a missing DVI file ends it with the
\* missing-file error, in both cases with no converter step; otherwise the
\* converter is run once and, whatever status it exits with, the call
\* returns Ok with the converter's standard output.
C18_PipelineOrder ==
    [][RendersOneMath =>
          /\ Len(NewSteps) \in 1..Len(PipelineOrder)
          /\ \A k \in 1..Len(NewSteps) : NewSteps[k].op = PipelineOrder[k]
          /\ \A k \in StepsOf(NewSteps, "latex") :
                NewSteps[k].res = "fail" =>
                    /\ StepsOf(NewSteps, "dvisvgm") = {}
                    /\ StepsOf(NewSteps, "dvi_exists") = {}
                    /\ ReturnedErr(<<"LaTeX failed: ">> \o NewSteps[k].stdout)
          /\ \A k \in StepsOf(NewSteps, "dvi_exists") :
                /\ NewSteps[k - 1].res = "ok"
                /\ NewSteps[k].res = "failed" =>
                      /\ StepsOf(NewSteps, "dvisvgm") = {}
                      /\ ReturnedErr(<<"DVI file not found at ", "{dvi_path:?}">>)
                /\ NewSteps[k].res = "ok" =>
                      Cardinality(StepsOf(NewSteps, "dvisvgm")) = 1
          /\ \A k \in StepsOf(NewSteps, "dvisvgm") :
                NewSteps[k].res \in {"ok", "fail"} => SpanHolds(NewSteps[k].stdout)]_vars

C18_Witness ==
    /\ pc = "done"
    /\ Len(blocks) = 1
    /\ blocks[1].kind = "Math"
    /\ Len(procs) = 5
    /\ procs[3].op = "latex"
    /\ procs[3].res = "ok"
    /\ procs[5].op = "dvisvgm"
    /\ procs[5].res = "fail"
    /\ out = <<"<span class=\"display-math\">">> \o procs[5].stdout \o <<"</span>">>

\* the LaTeX fragment of the block rendered next: the text of the Math block
\* or of the one InlineMath run of the block
MathSource ==
    LET b == blocks[block_i + 1]
    IN  IF b.kind = "Math" THEN b.src
        ELSE b.texts[CHOOSE k \in 1..Len(b.texts) : b.texts[k].fmt = InlineMath].src

\* C19: the fragment of a display Math block is written to the .tex file
\* wrapped in \[ and \], the fragment of an InlineMath run wrapped in $ and
\* $, in the place of {{content}} in the math template.
C19_ModeFollowsKind ==
    [][(RendersOneMath /\ blocks[block_i + 1].kind \in {"Math", "Paragraph"}) =>
          \A k \in StepsOf(NewSteps, "write") :
              NewSteps[k].arg =
                  IF blocks[block_i + 1].kind = "Math"
                  THEN <<"\\begin{document}", "\\[">> \o MathSource
                           \o <<"\\]", "\\end{document}">>
                  ELSE <<"\\begin{document}", "$">> \o MathSource
                           \o <<"$", "\\end{document}">>]_vars

(***************************************************************************)
(* The end of the input inside a fence, a math block, a comment or html.   *)
(***************************************************************************)
\* a new block is expected, the next line starts with open and no line after
\* it starts with close
OpensUnclosed(open, close) ==
    /\ pc = "segment"
    /\ lines # <<>>
    /\ is_new_block
    /\ starts_with(Head(lines), open)
    /\ \A k \in 2..Len(lines) : ~starts_with(lines[k], close)

\* every line of ls followed by sep
EachLineThen(ls, sep) == Concat([k \in 1..Len(ls) |-> ls[k] \o sep])

\* C20: every iteration of parse_blocks takes at least one line and raises
\* no error, and parse_blocks returns once no line is left, so it terminates
\* on every finite input; a code fence, math block, comment or html block
\* with no closing line takes every remaining line: a Code or a Math block
\* with each line followed by a newline, an Html block with the lines
\* joined, no block for a comment; the buffer is left empty and no block is
\* added after it.
C20_UnclosedTakesTheRest ==
    [][/\ (pc = "segment" /\ lines # <<>>) =>
            /\ Len(lines') < Len(lines)
            /\ pc' = "segment"
       /\ (pc = "segment" /\ lines = <<>>) => pc' = "inner"
       /\ (pc = "segment" /\ lines = <<>> /\ text_buf = <<>>) => blocks' = blocks
       /\ OpensUnclosed(Fence, Fence) =>
            /\ lines' = <<>>
            /\ text_buf' = <<>>
            /\ blocks' = Append(blocks, Code(trim(StrFrom(Head(lines), 3)),
                                             EachLineThen(Tail(lines), <<"\n">>)))
       /\ OpensUnclosed(<<"\\", "[">>, <<"\\", "]">>) =>
            /\ lines' = <<>>
            /\ text_buf' = <<>>
            /\ blocks' = Append(blocks, Math(EachLineThen(Tail(lines), <<"\n">>)))
       /\ OpensUnclosed(<<"<", "!", "-", "-">>, <<"-", "-", ">">>) =>
            /\ lines' = <<>>
            /\ text_buf' = <<>>
            /\ blocks' = blocks
       /\ OpensUnclosed(<<"<", "h", "t", "m", "l", ">">>,
                        <<"<", "/", "h", "t", "m", "l", ">">>) =>
            /\ lines' = <<>>
            /\ text_buf' = <<>>
            /\ blocks' = Append(blocks, Html(EachLineThen(Tail(lines), <<>>)))]_vars

C20_Witness ==
    /\ pc = "inner"
    /\ input = <<Fence, PlainLine, HeaderLine>>
    /\ blocks = <<Code(<<>>, <<"a", "\n", "#", " ", "h", "\n">>)>>

(***************************************************************************)
(* The line that ends a list.                                              *)
(***************************************************************************)
\* C21: the step that builds a list ends it at the first line that matches
\* neither item pattern and does not lose that line: when the line is not
\* blank it is still in the iterator after the step, with every line after
\* it, so that the segmenter processes its text into a later block.
C21_ListKeepsTerminator ==
    [][(/\ pc = "segment"
        /\ lines # <<>>
        /\ is_new_block
        /\ OpensList(Head(lines))
        /\ ItemRun(lines) < Len(lines)
        /\ ~is_blank(lines[ItemRun(lines) + 1]))
            => lines' = SubSeq(lines, ItemRun(lines) + 1, Len(lines))]_vars

(***************************************************************************)
(* The buffer and the style after a call of push_fmted_text.               *)
(***************************************************************************)
\* the style the next call of push_fmted_text is asked to switch to
NextFmtNew ==
    IF chars = <<>> THEN fmt
    ELSE IF in_literal_mode THEN Plain
    ELSE CASE Head(chars) = "*" -> Bold
           [] Head(chars) = "_" -> Italic
           [] Head(chars) = "$" -> InlineMath
           [] OTHER -> InlineCode

\* the number of characters of the text that the runs ts hold
EmittedLen(ts) == Len(Concat([k \in 1..Len(ts) |-> unparse(ts[k])]))

\* C22: every call of push_fmted_text with a non-empty buffer leaves the
\* buffer of parse_text empty and switches the style once (to Plain when it
\* was the style asked for, to the style asked for otherwise), also when a
\* link or a footnote reference is followed by more text in the buffer; and
\* the runs parse_text returns hold no character of the text twice: together
\* they are no longer than the text.
C22_FlushEmptiesBuffer ==
    [][/\ (Flushes /\ s_buf # <<>>) =>
            /\ s_buf' = <<>>
            /\ fmt' = IF fmt = NextFmtNew THEN Plain ELSE NextFmtNew
       /\ pc' = "scanned" => EmittedLen(texts') <= Len(src)]_vars

====
